---- MODULE Spec2Model ----
(***************************************************************************)
(* CypherCraft: the password analyzer (utils/entropy.py), the k-anonymity  *)
(* breach checker (utils/hash_utils.py), the secure generator              *)
(* (utils/generator.py) and the three request handlers of app.py, as a     *)
(* state machine over a fixed number of request slots.                     *)
(*                                                                         *)
(* Strings are sequences of one-character strings.  Python values that can *)
(* be None are tagged records (PyNone, PyInt, PyBool, PyStr).  A function  *)
(* that can raise returns Ret(value, rng) or Raise(exception, rng).        *)
(***************************************************************************)
EXTENDS Integers, Sequences, FiniteSets, TLC

VARIABLES
  pc,        \* pc[s]: "idle" | "awaiting" (suspended in client.get) | "done"
  call,      \* call[s]: the operation slot s runs and its argument
  result,    \* result[s]: what the operation returned or raised
  rng,       \* rng[s]: the entropy stream of the call, after its draws
  outbound   \* outbound[s]: the requests the call sent to the breach service

vars == <<pc, call, result, rng, outbound>>

\* ------------------------------------------------------------------ bounds

\* Concurrent request slots of the server.
NumSlots == 2

\* Entropy tapes explored for every generation call.
NumTapes == 3

\* How far below and above a clamping range the requested lengths go.
MaxOver == 2

\* Longest password handed to analyze_password.
MaxPwLen == 3

\* Most lines in a response of the range service.
MaxLines == 2

Slots == 1..NumSlots
Tapes == 0..(NumTapes - 1)

\* ----------------------------------------------------------- Python values

PyNone == [t |-> "none"]
PyInt(n) == [t |-> "int", i |-> n]
PyBool(b) == [t |-> "bool", b |-> b]
PyStr(s) == [t |-> "str", s |-> s]

\* Truth value of an Optional[bool]: None is falsy.
Truthy(v) == v.t = "bool" /\ v.b

Ret(v, r) == [exc |-> "", value |-> v, rng |-> r]
Raise(e, r) == [exc |-> e, rng |-> r]

Min2(a, b) == IF a < b THEN a ELSE b
Max2(a, b) == IF a > b THEN a ELSE b

\* A dict over the option keys is a record of all of them; a key the dict
\* does not hold has the value Absent.
Absent == [t |-> "absent"]

\* dict.get(key, default)
Get(options, key, default) ==
  IF options[key] = Absent THEN default ELSE options[key]

\* --------------------------------------------------------------- constants

ascii_lowercase ==
  <<"a","b","c","d","e","f","g","h","i","j","k","l","m","n","o","p","q","r","s","t","u","v","w","x","y","z">>

ascii_uppercase ==
  <<"A","B","C","D","E","F","G","H","I","J","K","L","M","N","O","P","Q","R","S","T","U","V","W","X","Y","Z">>

digits ==
  <<"0","1","2","3","4","5","6","7","8","9">>

\* string.punctuation; GRAVE stands for the grave accent (U+0060), which a
\* TLA+ string literal cannot hold.
GRAVE == "grave"

punctuation ==
  <<"!","\"","#","$","%","&","'","(",")","*","+",",","-",".","/",":",";","<","=",">","?","@","[","\\","]","^","_",GRAVE,"{","|","}","~">>

AMBIGUOUS_CHARS ==
  <<"i","l","1","L","o","0","O">>

WORD_LIST ==
  <<
     <<"a","p","p","l","e">>, <<"b","r","a","v","e">>, <<"c","l","o","u","d">>, <<"d","a","n","c","e">>,
     <<"e","a","g","l","e">>, <<"f","l","a","m","e">>, <<"g","r","a","c","e">>, <<"h","e","a","r","t">>,
     <<"i","v","o","r","y">>, <<"j","e","w","e","l">>, <<"k","n","a","c","k">>, <<"l","u","n","a","r">>,
     <<"m","a","p","l","e">>, <<"n","i","g","h","t">>, <<"o","c","e","a","n">>, <<"p","e","a","r","l">>,
     <<"q","u","e","s","t">>, <<"r","i","v","e","r">>, <<"s","t","o","n","e">>, <<"t","i","g","e","r">>,
     <<"u","m","b","r","a">>, <<"v","i","v","i","d">>, <<"w","h","a","l","e">>, <<"x","e","n","o","n">>,
     <<"y","a","c","h","t">>, <<"z","e","b","r","a">>, <<"a","m","b","e","r">>, <<"b","l","a","z","e">>,
     <<"c","e","d","a","r">>, <<"d","r","i","f","t">>, <<"e","m","b","e","r">>, <<"f","r","o","s","t">>,
     <<"g","l","o","b","e">>, <<"h","a","v","e","n">>, <<"i","n","l","e","t">>, <<"j","o","k","e","r">>,
     <<"k","a","r","m","a">>, <<"l","e","m","o","n">>, <<"m","i","r","t","h">>, <<"n","o","b","l","e">>,
     <<"o","a","s","i","s">>, <<"p","r","i","s","m">>, <<"q","u","i","l","t">>, <<"r","a","v","e","n">>,
     <<"s","o","l","a","r">>, <<"t","h","o","r","n">>, <<"u","l","t","r","a">>, <<"v","i","g","o","r">>,
     <<"w","i","r","e","d">>, <<"p","i","x","e","l">>, <<"a","r","r","o","w">>, <<"b","r","i","s","k">>,
     <<"c","a","n","d","y">>, <<"d","e","l","t","a">>, <<"e","l","b","o","w">>, <<"f","i","e","r","y">>,
     <<"g","h","o","s","t">>, <<"h","u","m","o","r">>, <<"i","n","d","e","x">>, <<"j","o","l","l","y">>,
     <<"k","n","e","e","l">>, <<"l","o","g","i","c">>, <<"m","e","t","a","l">>, <<"n","e","r","v","e">>,
     <<"o","r","b","i","t">>, <<"p","u","l","s","e">>, <<"q","u","i","e","t">>, <<"r","o","a","s","t">>,
     <<"s","h","a","r","k">>, <<"t","r","a","i","l">>, <<"u","n","i","t","y">>, <<"v","a","u","l","t">>,
     <<"w","a","g","o","n">>, <<"y","i","e","l","d">>, <<"b","l","i","s","s">>, <<"c","h","a","r","m">>,
     <<"d","w","a","r","f">>, <<"e","t","h","o","s">>, <<"f","a","b","l","e">>, <<"g","l","y","p","h">>,
     <<"h","a","s","t","e">>, <<"i","r","o","n","y">>, <<"j","a","z","z","y">>, <<"k","i","o","s","k">>,
     <<"l","y","r","i","c">>, <<"m","o","c","h","a">>, <<"n","e","x","u","s">>, <<"o","l","i","v","e">>,
     <<"p","i","a","n","o">>, <<"r","e","i","g","n">>, <<"s","p","i","c","e">>, <<"t","u","l","i","p">>,
     <<"u","s","h","e","r">>, <<"v","i","p","e","r">>, <<"w","i","d","o","w">>, <<"z","e","s","t","y">>,
     <<"a","c","o","r","n">>, <<"b","a","s","i","n">>, <<"c","l","i","f","f">>, <<"d","o","d","g","e">>,
     <<"e","p","o","c","h">>, <<"f","l","i","n","t">>, <<"g","r","a","i","n">>, <<"h","y","d","r","a">>,
     <<"i","m","a","g","e">>, <<"j","o","i","n","t">>, <<"k","a","y","a","k">>, <<"l","i","b","r","a">>,
     <<"m","a","r","s","h">>, <<"n","o","r","t","h">>, <<"o","m","e","g","a">>, <<"p","l","u","m","e">>,
     <<"q","u","o","t","a">>, <<"r","i","d","g","e">>, <<"s","w","i","r","l">>, <<"t","o","r","c","h">>,
     <<"u","r","b","a","n">>, <<"v","e","r","g","e">>, <<"w","h","i","s","k">>, <<"a","x","i","o","m">>
  >>

\* ------------------------------------------------------------ entropy source

\* The OS entropy source behind the secrets module, as a tape of numbers:
\* r.tape names the tape and r.n counts the draws taken from it so far.
Seed(tape) == [tape |-> tape, n |-> 0]
Advance(r) == [tape |-> r.tape, n |-> r.n + 1]
TapeAt(r) == ((r.n + 1) * (7919 + 2 * r.tape) + 31 * r.tape) % 65537

\* secrets.randbelow(n): the value drawn at stream position r; the caller
\* continues with Advance(r).
randbelow(r, n) == TapeAt(r) % n

\* secrets.choice(seq)
choice(r, seq) == seq[randbelow(r, Len(seq)) + 1]

\* ----------------------------------------------------------------- strings

InSeq(c, seq) == \E i \in 1..Len(seq) : seq[i] = c

\* The filter left out: the variant that shows the ambiguity claim rests on
\* the filter.
StripAmbiguousKeepAll(chars) == chars

\* "".join(c for c in chars if c not in AMBIGUOUS_CHARS)
RECURSIVE StripAmbiguous(_)
StripAmbiguous(chars) ==
  IF chars = <<>> THEN <<>>
  ELSE IF InSeq(Head(chars), AMBIGUOUS_CHARS)
       THEN StripAmbiguous(Tail(chars))
       ELSE <<Head(chars)>> \o StripAmbiguous(Tail(chars))

\* sep.join(parts)
RECURSIVE Join(_, _)
Join(sep, parts) ==
  IF parts = <<>> THEN <<>>
  ELSE IF Len(parts) = 1 THEN parts[1]
  ELSE parts[1] \o sep \o Join(sep, Tail(parts))

\* ------------------------------------------------------------- generator.py

\* One "if <class>:" block of generate_standard: build the class's subset,
\* add it to the pool and draw the class's required character.
ClassBlock(st, enabled, alphabet, filtered, exclude_ambiguous) ==
  IF ~enabled THEN st
  ELSE LET chars == IF filtered /\ exclude_ambiguous
                    THEN StripAmbiguous(alphabet) ELSE alphabet
       IN [pool |-> st.pool \o chars,
           required |-> Append(st.required, choice(st.rng, chars)),
           rng |-> Advance(st.rng)]

\* The stream r after k more draws.
AdvanceBy(r, k) == [tape |-> r.tape, n |-> r.n + k]

\* [secrets.choice(pool) for _ in range(k)]: the i-th element is the i-th
\* draw from r on.
Fill(pool, k, r) ==
  [chars |-> [i \in 1..Max2(k, 0) |-> choice(AdvanceBy(r, i - 1), pool)],
   rng |-> AdvanceBy(r, Max2(k, 0))]

Swap(chars, i, j) == [chars EXCEPT ![i] = chars[j], ![j] = chars[i]]

\* for i in range(len - 1, 0, -1): j = randbelow(i + 1); swap i, j
\* (i is the Python index, the sequence is 1-based; a sequence of fewer than
\* two characters has an empty range)
RECURSIVE Shuffle(_, _, _)
Shuffle(chars, i, r) ==
  IF i < 1 \/ Len(chars) < 2 THEN chars
  ELSE Shuffle(Swap(chars, i + 1, randbelow(r, i + 1) + 1), i - 1, Advance(r))

FisherYates(chars, r) ==
  [chars |-> Shuffle(chars, Len(chars) - 1, r),
   rng |-> AdvanceBy(r, Max2(Len(chars) - 1, 0))]

\* The clamp without its upper end: the variant that shows the length claims
\* rest on both ends.
ClampLowOnly(lo, hi, length) == Max2(lo, length.i)

\* max(lo, min(hi, length)); the callers raise TypeError for a None length
Clamp(lo, hi, length) == Max2(lo, Min2(hi, length.i))

generate_standard(length, uppercase, lowercase, numbers, symbols, exclude_ambiguous, r) ==
  IF length.t # "int" THEN Raise("TypeError", r)
  ELSE
    LET len == Clamp(8, 128, length)
        ex == Truthy(exclude_ambiguous)
        s0 == [pool |-> <<>>, required |-> <<>>, rng |-> r]
        s1 == ClassBlock(s0, Truthy(lowercase), ascii_lowercase, TRUE, ex)
        s2 == ClassBlock(s1, Truthy(uppercase), ascii_uppercase, TRUE, ex)
        s3 == ClassBlock(s2, Truthy(numbers), digits, TRUE, ex)
        s4 == ClassBlock(s3, Truthy(symbols), punctuation, FALSE, ex)
    IN IF s4.pool = <<>> THEN Raise("ValueError", s4.rng)
       ELSE
         LET remaining_length == len - Len(s4.required)
             fill == Fill(s4.pool, remaining_length, s4.rng)
             password_chars == s4.required \o fill.chars
             shuffled == FisherYates(password_chars, fill.rng)
         IN Ret(shuffled.chars, shuffled.rng)

generate_pin(length, r) ==
  IF length.t # "int" THEN Raise("TypeError", r)
  ELSE LET drawn == Fill(digits, Clamp(4, 6, length), r)
       IN Ret(drawn.chars, drawn.rng)

generate_passphrase(word_count, r) ==
  IF word_count.t # "int" THEN Raise("TypeError", r)
  ELSE LET words == Fill(WORD_LIST, Clamp(3, 5, word_count), r)
       IN Ret(Join(<<"-">>, words.chars), words.rng)

generate_password(options, r) ==
  LET pw_type == Get(options, "type", PyStr("standard"))
      password ==
        IF pw_type = PyStr("pin")
        THEN generate_pin(Get(options, "length", PyInt(4)), r)
        ELSE IF pw_type = PyStr("passphrase")
        THEN generate_passphrase(Get(options, "word_count", PyInt(4)), r)
        ELSE generate_standard(Get(options, "length", PyInt(16)),
                               Get(options, "uppercase", PyBool(TRUE)),
                               Get(options, "lowercase", PyBool(TRUE)),
                               Get(options, "numbers", PyBool(TRUE)),
                               Get(options, "symbols", PyBool(TRUE)),
                               Get(options, "exclude_ambiguous", PyBool(FALSE)),
                               r)
  IN IF password.exc # "" THEN password
     ELSE Ret([password |-> password.value, type |-> pw_type], password.rng)

\* ------------------------------------------------------------ hash_utils.py

HIBP_API_URL ==
  <<"h","t","t","p","s",":","/","/","a","p","i",".","p","w","n","e","d","p",
    "a","s","s","w","o","r","d","s",".","c","o","m","/","r","a","n","g","e",
    "/">>

USER_AGENT ==
  <<"P","a","s","s","w","o","r","d","G","u","a","r","d","i","a","n","-","M",
    "i","n","i","P","r","o","j","e","c","t">>

\* The passwords handed to check_breach; the last two have SHA-1 digests with
\* the same first five hexadecimal characters.
BreachPasswords ==
  {<<"p","a","s","s","w","o","r","d">>,
   <<"p","a","s","s","5","9","0">>,
   <<"p","a","s","s","1","0","6","2">>}

\* hashlib.sha1(text.encode("utf-8")).hexdigest().upper(), tabulated for
\* BreachPasswords.
sha1_hash(text) ==
  CASE text = <<"p","a","s","s","w","o","r","d">> ->
         <<"5","B","A","A","6","1","E","4","C","9","B","9","3","F","3","F",
           "0","6","8","2","2","5","0","B","6","C","F","8","3","3","1","B",
           "7","E","E","6","8","F","D","8">>
    [] text = <<"p","a","s","s","5","9","0">> ->
         <<"6","2","5","C","D","9","E","4","C","8","E","8","6","9","F","0",
           "1","A","8","7","2","B","5","1","A","9","6","9","D","1","F","3",
           "E","B","9","6","8","9","2","C">>
    [] text = <<"p","a","s","s","1","0","6","2">> ->
         <<"6","2","5","C","D","9","9","F","2","3","4","4","7","8","C","9",
           "8","5","2","D","C","5","3","2","7","5","B","9","F","7","3","8",
           "2","F","4","3","B","F","3","5">>
TIMEOUT_MESSAGE ==
  <<"R","e","q","u","e","s","t"," ","t","i","m","e","d"," ","o","u","t",".",
    " ","P","l","e","a","s","e"," ","t","r","y"," ","a","g","a","i","n",".">>

API_ERROR ==
  <<"A","P","I"," ","e","r","r","o","r",":"," ">>

NETWORK_ERROR ==
  <<"N","e","t","w","o","r","k"," ","e","r","r","o","r",":"," ">>

INVALID_LITERAL ==
  <<"i","n","v","a","l","i","d"," ","l","i","t","e","r","a","l"," ","f","o",
    "r"," ","i","n","t","(",")"," ","w","i","t","h"," ","b","a","s","e"," ",
    "1","0",":"," ">>

CONNECT_FAILED ==
  <<"A","l","l"," ","c","o","n","n","e","c","t","i","o","n"," ","a","t","t",
    "e","m","p","t","s"," ","f","a","i","l","e","d">>

\* ------------------------------------------------------------- str methods

MinOf(S) == CHOOSE i \in S : \A j \in S : i <= j
MaxOf(S) == CHOOSE i \in S : \A j \in S : j <= i

\* The k-th smallest element of a finite set of integers.
Kth(S, k) == CHOOSE i \in S : Cardinality({j \in S : j <= i}) = k

\* text.split(sep) for a one-character separator
Split(text, sep) ==
  LET at == {i \in 1..Len(text) : text[i] = sep}
      n == Cardinality(at)
      cut(k) == IF k = 0 THEN 0
                ELSE IF k = n + 1 THEN Len(text) + 1 ELSE Kth(at, k)
  IN [k \in 1..(n + 1) |-> SubSeq(text, cut(k - 1) + 1, cut(k) - 1)]

Whitespace == {" ", "\t", "\n", "\r", "\f"}

\* text.strip()
Strip(text) ==
  LET keep == {i \in 1..Len(text) : text[i] \notin Whitespace}
  IN IF keep = {} THEN <<>> ELSE SubSeq(text, MinOf(keep), MaxOf(keep))

\* text.splitlines(): a line ends at "\n", "\r\n", a lone "\r" or "\f"; a
\* terminator at the very end opens no further line.
SplitLines(text) ==
  LET n == Len(text)
      ends == {i \in 1..n :
                 \/ text[i] \in {"\n", "\f"}
                 \/ text[i] = "\r" /\ (i = n \/ text[i + 1] # "\n")}
      m == Cardinality(ends)
      start(k) == IF k = 1 THEN 1 ELSE Kth(ends, k - 1) + 1
      stop(k) ==
        IF k = m + 1 THEN n
        ELSE LET e == Kth(ends, k)
             IN IF text[e] = "\n" /\ e > 1 /\ text[e - 1] = "\r"
                THEN e - 2 ELSE e - 1
      count == IF m = 0 THEN (IF n = 0 THEN 0 ELSE 1)
               ELSE IF Kth(ends, m) = n THEN m ELSE m + 1
  IN [k \in 1..count |-> SubSeq(text, start(k), stop(k))]

DigitValue(c) == CHOOSE d \in 0..9 : digits[d + 1] = c

RECURSIVE DecValue(_)
DecValue(ds) ==
  IF ds = <<>> THEN 0
  ELSE DecValue(SubSeq(ds, 1, Len(ds) - 1)) * 10 + DigitValue(ds[Len(ds)])

\* The sign of an int() literal, and what follows it.
Unsigned(text) ==
  IF text # <<>> /\ text[1] \in {"+", "-"} THEN Tail(text) ELSE text

\* Whether int(text) succeeds: surrounding whitespace, an optional sign, then
\* decimal digits, which single underscores may separate.
IsIntLiteral(text) ==
  LET body == Unsigned(Strip(text))
  IN /\ body # <<>>
     /\ \A i \in 1..Len(body) : InSeq(body[i], digits) \/ body[i] = "_"
     /\ body[1] # "_" /\ body[Len(body)] # "_"
     /\ \A i \in 1..(Len(body) - 1) : ~(body[i] = "_" /\ body[i + 1] = "_")

\* int(text), where it succeeds
IntValue(text) ==
  LET t == Strip(text)
      v == DecValue(SelectSeq(Unsigned(t), LAMBDA c : c # "_"))
  IN IF t[1] = "-" THEN 0 - v ELSE v

\* str(n) of a non-negative int
RECURSIVE Str(_)
Str(n) ==
  IF n < 10 THEN <<digits[n + 1]>>
  ELSE Str(n \div 10) \o <<digits[(n % 10) + 1]>>

\* repr(text) of a str without quotes or escapes in it
Repr(text) == <<"'">> \o text \o <<"'">>

\* The whole digest as the prefix: the variant that shows the privacy claim
\* rests on the slice.
HashPrefixWhole(full_hash) == full_hash

\* full_hash[:5]
HashPrefix(full_hash) == SubSeq(full_hash, 1, 5)

\* The slice taken one character early: the variant that shows the match
\* claim rests on the suffix being the last 35 characters.
HashSuffixFromFifth(full_hash) == SubSeq(full_hash, 5, Len(full_hash))

\* full_hash[5:]
HashSuffix(full_hash) == SubSeq(full_hash, 6, Len(full_hash))

\* The request of client.get(f"{HIBP_API_URL}{prefix}", headers={...})
RangeRequest(prefix) ==
  [method |-> "GET",
   url |-> HIBP_API_URL \o prefix,
   headers |-> ("User-Agent" :> USER_AGENT)]

\* A client that sends every request twice (a retry): the variant that shows
\* the single-request claim rests on the one client.get.
client_get_twice(sent, request) == Append(Append(sent, request), request)

\* client.get: the request goes out; sent is what the call sent before.
client_get(sent, request) == Append(sent, request)

Returned(v) == [exc |-> "", value |-> v]

BreachDict(breached, count, error) ==
  [breached |-> breached, count |-> count, error |-> error]

\* The for loop over response.text.splitlines(): the first line with two
\* parts whose first part is the suffix decides; int() of a count that is no
\* integer literal raises ValueError.
ScanLines(text, suffix) ==
  LET lines == SplitLines(text)
      hits == {i \in 1..Len(lines) :
                 LET parts == Split(lines[i], ":")
                 IN Len(parts) = 2 /\ Strip(parts[1]) = suffix}
  IN IF hits = {} THEN Returned(BreachDict(FALSE, 0, PyNone))
     ELSE LET parts == Split(lines[MinOf(hits)], ":")
              count == Strip(parts[2])
          IN IF IsIntLiteral(count)
             THEN Returned(BreachDict(TRUE, IntValue(count), PyNone))
             ELSE [exc |-> "ValueError",
                   message |-> INVALID_LITERAL \o Repr(count)]

\* response.raise_for_status(): any status outside 2xx raises.
raise_for_status(response) ==
  IF response.status_code \in 200..299 THEN Returned(response)
  ELSE [exc |-> "HTTPStatusError", status_code |-> response.status_code]

\* The try block from the point where client.get completes.
TryBody(suffix, outcome) ==
  IF outcome.kind = "timeout"
  THEN [exc |-> "TimeoutException", message |-> <<>>]
  ELSE IF outcome.kind = "error"
  THEN [exc |-> "ConnectError", message |-> outcome.message]
  ELSE LET checked == raise_for_status(outcome)
       IN IF checked.exc # "" THEN checked
          ELSE ScanLines(outcome.text, suffix)

\* The handlers without the final "except Exception": the variant that shows
\* the never-raises claim rests on the catch-all.
ExceptClausesNoCatchAll(e) ==
  IF e.exc = "TimeoutException"
  THEN [exc |-> "", value |-> [breached |-> FALSE, count |-> 0,
                               error |-> PyStr(TIMEOUT_MESSAGE)]]
  ELSE IF e.exc = "HTTPStatusError"
  THEN [exc |-> "", value |-> [breached |-> FALSE, count |-> 0,
                               error |-> PyStr(API_ERROR \o Str(e.status_code))]]
  ELSE e

\* The three except clauses, in their order.
ExceptClauses(e) ==
  IF e.exc = "TimeoutException"
  THEN Returned(BreachDict(FALSE, 0, PyStr(TIMEOUT_MESSAGE)))
  ELSE IF e.exc = "HTTPStatusError"
  THEN Returned(BreachDict(FALSE, 0,
                           PyStr(API_ERROR \o Str(e.status_code))))
  ELSE Returned(BreachDict(FALSE, 0, PyStr(NETWORK_ERROR \o e.message)))

\* check_breach from the await on.
check_breach_resume(suffix, outcome) ==
  LET body == TryBody(suffix, outcome)
  IN IF body.exc = "" THEN body ELSE ExceptClauses(body)

\* --------------------------------------------------------------- entropy.py

\* bool(re.search(<class>, password)) for a one-character class
Search(password, Class(_)) == \E i \in 1..Len(password) : Class(password[i])

Lower(c) == InSeq(c, ascii_lowercase)                        \* [a-z]
Upper(c) == InSeq(c, ascii_uppercase)                        \* [A-Z]
Digit(c) == InSeq(c, digits)                                 \* [0-9]
NonAlnum(c) == ~Lower(c) /\ ~Upper(c) /\ ~Digit(c)           \* [^a-zA-Z0-9]

\* _get_charset_size with the symbol bucket forgotten: the variant that shows
\* the charset claim rests on all four buckets.
CharsetSizeNoSymbols(password) ==
  (IF Search(password, Lower) THEN 26 ELSE 0)
  + (IF Search(password, Upper) THEN 26 ELSE 0)
  + (IF Search(password, Digit) THEN 10 ELSE 0)

_get_charset_size(password) ==
  (IF Search(password, Lower) THEN 26 ELSE 0)
  + (IF Search(password, Upper) THEN 26 ELSE 0)
  + (IF Search(password, Digit) THEN 10 ELSE 0)
  + (IF Search(password, NonAlnum) THEN 32 ELSE 0)

\* math.log2(charset_size) in millionths of a bit, rounded down, for the sums
\* of buckets the charset size can be.
Log2Micro(charset_size) ==
  CASE charset_size = 10 -> 3321928
    [] charset_size = 26 -> 4700439
    [] charset_size = 32 -> 5000000
    [] charset_size = 36 -> 5169925
    [] charset_size = 42 -> 5392317
    [] charset_size = 52 -> 5700439
    [] charset_size = 58 -> 5857980
    [] charset_size = 62 -> 5954196
    [] charset_size = 68 -> 6087462
    [] charset_size = 84 -> 6392317
    [] charset_size = 94 -> 6554588

\* entropy * log10(2) - log10(GUESSES_PER_SECOND), in thousandths, from the
\* entropy in millionths of a bit (log10(2) taken as 0.30103).
LogSeconds(entropy_micro) ==
  LET milli == entropy_micro \div 1000
  IN (milli * 301) \div 1000 + (milli * 3) \div 100000 - 10000

\* The crack time: 0, infinite (log10 beyond 30) or 10 ** log_seconds, kept
\* as its base-10 logarithm in thousandths.
CrackTime(entropy_micro) ==
  IF entropy_micro > 0
  THEN IF LogSeconds(entropy_micro) > 30000 THEN [t |-> "inf"]
       ELSE [t |-> "finite", log10 |-> LogSeconds(entropy_micro)]
  ELSE [t |-> "zero"]

\* The thresholds of _format_crack_time on the seconds, taken on their base-10
\* logarithm; the unit of the text it returns (the number is not modelled).
_format_crack_time(seconds) ==
  IF seconds.t = "zero" THEN "Instantly"
  ELSE IF seconds.t = "inf" THEN "Virtually uncrackable"
  ELSE IF seconds.log10 < -3000 THEN "Instantly"
  ELSE IF seconds.log10 < 0 THEN "Less than a second"
  ELSE IF seconds.log10 < 1778 THEN "seconds"
  ELSE IF seconds.log10 < 3556 THEN "minutes"
  ELSE IF seconds.log10 < 4937 THEN "hours"
  ELSE IF seconds.log10 < 7499 THEN "days"
  ELSE IF seconds.log10 < 9499 THEN "years"
  ELSE IF seconds.log10 < 11499 THEN "centuries"
  ELSE "Virtually uncrackable"

\* __get_strength_label, on the entropy in millionths of a bit
_get_strength_label(entropy_micro) ==
  IF entropy_micro < 28000000 THEN [label |-> "Very Weak", color |-> "#ef4444"]
  ELSE IF entropy_micro < 36000000 THEN [label |-> "Weak", color |-> "#f97316"]
  ELSE IF entropy_micro < 60000000
  THEN [label |-> "Moderate", color |-> "#eab308"]
  ELSE IF entropy_micro < 80000000 THEN [label |-> "Strong", color |-> "#22c55e"]
  ELSE [label |-> "Very Strong", color |-> "#06b6d4"]

\* analyze_password.  entropy is round(entropy, 2) in hundredths of a bit;
\* crack_time_seconds is the crack time with infinity reported as -1
\* (t = "unbounded").
analyze_password(password) ==
  IF password = <<>>
  THEN [length |-> 0,
        charset_size |-> 0,
        entropy |-> 0,
        crack_time |-> "Instantly",
        crack_time_seconds |-> [t |-> "zero"],
        strength |-> [label |-> "Very Weak", color |-> "#ef4444"],
        policy |-> [min_length |-> FALSE, has_uppercase |-> FALSE,
                    has_lowercase |-> FALSE, has_number |-> FALSE,
                    has_symbol |-> FALSE]]
  ELSE
    LET length == Len(password)
        charset_size == _get_charset_size(password)
        entropy == IF charset_size > 0
                   THEN length * Log2Micro(charset_size) ELSE 0
        crack_time_seconds == CrackTime(entropy)
    IN [length |-> length,
        charset_size |-> charset_size,
        entropy |-> (entropy + 5000) \div 10000,
        crack_time |-> _format_crack_time(crack_time_seconds),
        crack_time_seconds |->
          IF crack_time_seconds.t = "inf" THEN [t |-> "unbounded"]
          ELSE crack_time_seconds,
        strength |-> _get_strength_label(entropy),
        policy |-> [min_length |-> length >= 8,
                    has_uppercase |-> Search(password, Upper),
                    has_lowercase |-> Search(password, Lower),
                    has_number |-> Search(password, Digit),
                    has_symbol |-> Search(password, NonAlnum)]]

\* ------------------------------------------------------------------- app.py

\* GenerateRequest(**body).model_dump(): every field, absent ones at the
\* model's defaults; an explicit null stays None.
GenerateRequest(body) ==
  [type |-> Get(body, "type", PyStr("standard")),
   length |-> Get(body, "length", PyInt(16)),
   word_count |-> Get(body, "word_count", PyInt(4)),
   uppercase |-> Get(body, "uppercase", PyBool(TRUE)),
   lowercase |-> Get(body, "lowercase", PyBool(TRUE)),
   numbers |-> Get(body, "numbers", PyBool(TRUE)),
   symbols |-> Get(body, "symbols", PyBool(TRUE)),
   exclude_ambiguous |-> Get(body, "exclude_ambiguous", PyBool(FALSE))]

\* POST /api/generate
api_generate(body, r) == generate_password(GenerateRequest(body), r)

\* POST /api/analyze
api_analyze(password) == analyze_password(password)

\* -------------------------------------------------------------------- state

NoCall == [op |-> "none"]
NoResult == [exc |-> "none"]

Init ==
  /\ pc = [s \in Slots |-> "idle"]
  /\ call = [s \in Slots |-> NoCall]
  /\ result = [s \in Slots |-> NoResult]
  /\ rng = [s \in Slots |-> Seed(0)]
  /\ outbound = [s \in Slots |-> <<>>]

\* What a finished call leaves in result[s]: the value or the exception.
Outcome(out) ==
  IF out.exc = "" THEN [exc |-> "", value |-> out.value]
  ELSE [exc |-> out.exc]

\* A call without an await in it runs to completion in one step.
Finish(s, c, out, r) ==
  /\ pc' = [pc EXCEPT ![s] = "done"]
  /\ call' = [call EXCEPT ![s] = c]
  /\ result' = [result EXCEPT ![s] = Outcome(out)]
  /\ rng' = [rng EXCEPT ![s] = r]
  /\ UNCHANGED outbound

Generator(op, arg, tape) == [op |-> op, arg |-> arg, tape |-> tape]

GenerateStandard(s, a, tape) ==
  /\ pc[s] = "idle"
  /\ LET out == generate_standard(a.length, a.uppercase, a.lowercase,
                                  a.numbers, a.symbols, a.exclude_ambiguous,
                                  Seed(tape))
     IN Finish(s, Generator("generate_standard", a, tape), out, out.rng)

GeneratePin(s, length, tape) ==
  /\ pc[s] = "idle"
  /\ LET out == generate_pin(length, Seed(tape))
     IN Finish(s, Generator("generate_pin", length, tape), out, out.rng)

GeneratePassphrase(s, word_count, tape) ==
  /\ pc[s] = "idle"
  /\ LET out == generate_passphrase(word_count, Seed(tape))
     IN Finish(s, Generator("generate_passphrase", word_count, tape), out,
               out.rng)

GeneratePassword(s, options, tape) ==
  /\ pc[s] = "idle"
  /\ LET out == generate_password(options, Seed(tape))
     IN Finish(s, Generator("generate_password", options, tape), out, out.rng)

ApiGenerate(s, body, tape) ==
  /\ pc[s] = "idle"
  /\ LET out == api_generate(body, Seed(tape))
     IN Finish(s, Generator("api_generate", body, tape), out, out.rng)

AnalyzePassword(s, password) ==
  /\ pc[s] = "idle"
  /\ Finish(s, [op |-> "analyze_password", arg |-> password],
            Returned(analyze_password(password)), rng[s])

\* AnalyzeRequest takes a password of 1 to 256 characters.
ApiAnalyze(s, password) ==
  /\ pc[s] = "idle"
  /\ Len(password) >= 1 /\ Len(password) <= 256
  /\ Finish(s, [op |-> "api_analyze", arg |-> password],
            Returned(api_analyze(password)), rng[s])

\* api_breach_check up to the await inside check_breach: the digest is
\* split, the range request goes out and the coroutine suspends.
ApiBreachCheck(s, password) ==
  /\ pc[s] = "idle"
  /\ Len(password) >= 1 /\ Len(password) <= 256
  /\ LET full_hash == sha1_hash(password)
         prefix == HashPrefix(full_hash)
         suffix == HashSuffix(full_hash)
     IN /\ call' = [call EXCEPT ![s] =
                      [op |-> "check_breach", arg |-> password,
                       suffix |-> suffix, response |-> [kind |-> "pending"]]]
        /\ outbound' = [outbound EXCEPT
                          ![s] = client_get(@, RangeRequest(prefix))]
  /\ pc' = [pc EXCEPT ![s] = "awaiting"]
  /\ UNCHANGED <<result, rng>>

\* client.get completes (a response, a timeout after 10 s or a transport
\* failure) and check_breach runs to its return.
BreachResponse(s, outcome) ==
  /\ pc[s] = "awaiting"
  /\ pc' = [pc EXCEPT ![s] = "done"]
  /\ call' = [call EXCEPT ![s].response = outcome]
  /\ result' = [result EXCEPT
                  ![s] = Outcome(check_breach_resume(call[s].suffix, outcome))]
  /\ UNCHANGED <<rng, outbound>>

\* The handler's response is delivered and the slot is free again.
Return(s) ==
  /\ pc[s] = "done"
  /\ pc' = [pc EXCEPT ![s] = "idle"]
  /\ call' = [call EXCEPT ![s] = NoCall]
  /\ result' = [result EXCEPT ![s] = NoResult]
  /\ rng' = [rng EXCEPT ![s] = Seed(0)]
  /\ outbound' = [outbound EXCEPT ![s] = <<>>]

\* ------------------------------------------------------------------- inputs

\* The integers around both ends of a clamping range [lo, hi].
AroundRange(lo, hi) ==
  ((lo - MaxOver)..(lo + MaxOver)) \cup ((hi - MaxOver)..(hi + MaxOver))

Bools == {PyBool(TRUE), PyBool(FALSE)}

StandardArgs ==
  [length : {PyInt(n) : n \in AroundRange(8, 128) \cup {-1, 0, 16}},
   uppercase : Bools, lowercase : Bools, numbers : Bools, symbols : Bools,
   exclude_ambiguous : Bools]

PinLengths == {PyInt(n) : n \in AroundRange(4, 6) \cup {-1, 0, 16}}

WordCounts == {PyInt(n) : n \in AroundRange(3, 5) \cup {-1, 0, 16}}

Kinds ==
  {PyStr("standard"), PyStr("pin"), PyStr("passphrase"), PyStr("diceware")}

\* Options handed to generate_password directly: any key may be missing.
OptionFields ==
  [type : Kinds \cup {Absent},
   length : {Absent, PyInt(5), PyInt(200)},
   word_count : {Absent, PyInt(9)},
   uppercase : Bools \cup {Absent},
   lowercase : {Absent, PyBool(FALSE)},
   numbers : {Absent, PyBool(FALSE)},
   symbols : {Absent, PyBool(FALSE)},
   exclude_ambiguous : {Absent, PyBool(TRUE)}]

\* Request bodies GenerateRequest accepts: type a string, every other field
\* Optional, so absent, null or a value of its type.
RequestFields ==
  [type : Kinds \cup {Absent},
   length : {Absent, PyNone, PyInt(200)},
   word_count : {Absent, PyNone, PyInt(0)},
   uppercase : {Absent, PyNone, PyBool(FALSE)},
   lowercase : {PyNone, PyBool(FALSE)},
   numbers : {PyNone, PyBool(FALSE)},
   symbols : {PyNone, PyBool(FALSE)},
   exclude_ambiguous : {Absent, PyBool(TRUE)}]

\* Passwords handed to the analyzer: every string of up to MaxPwLen of these
\* characters, and the breach checker's passwords.
AnalyzeChars == {"a", "z", "Q", "0", "7", "!", " "}

AnalyzePasswords ==
  UNION {[1..n -> AnalyzeChars] : n \in 0..MaxPwLen} \cup BreachPasswords

\* The 35 characters the range service lists for a password.
Listed(password) == SubSeq(sha1_hash(password), 6, 40)

\* A hexadecimal string in lower case.
LowerHex(chars) ==
  [i \in DOMAIN chars |->
     IF InSeq(chars[i], ascii_uppercase)
     THEN ascii_lowercase[CHOOSE k \in 1..26 : ascii_uppercase[k] = chars[i]]
     ELSE chars[i]]

\* One line of a range response: a "SUFFIX:COUNT" record, or a malformed one.
Line(suffix, count, form) == [suffix |-> suffix, count |-> count, form |-> form]

RenderLine(l) ==
  CASE l.form = "record" -> l.suffix \o <<":">> \o Str(l.count)
    [] l.form = "bad_count" -> l.suffix \o <<":">> \o <<"4", "x">>
    [] l.form = "spaced" ->
         <<" ">> \o l.suffix \o <<" ", ":", " ">> \o Str(l.count) \o <<" ">>
    [] l.form = "three_parts" ->
         l.suffix \o <<":">> \o Str(l.count) \o <<":", "1">>

\* The lines a response to the range request of a password is made of.
LinesFor(password) ==
  {Line(Listed(password), 42, "record"),
   Line(Listed(password), 7, "record"),
   Line(LowerHex(Listed(password)), 5, "record"),
   Line(Listed(password), 0, "bad_count"),
   Line(Listed(password), 9, "spaced"),
   Line(Listed(password), 1, "three_parts")}
  \cup {Line(Listed(q), 3, "record") : q \in BreachPasswords \ {password}}

Response(status_code, listing, newline) ==
  [kind |-> "response", status_code |-> status_code, listing |-> listing,
   text |-> Join(newline, [i \in DOMAIN listing |-> RenderLine(listing[i])])]

Failures ==
  {[kind |-> "timeout"],
   [kind |-> "error", message |-> CONNECT_FAILED],
   [kind |-> "error", message |-> <<>>]}
  \cup {Response(code, <<>>, <<"\n">>) : code \in {204, 302, 404, 429, 503}}

\* Everything client.get can end with for the range request of a password.
Outcomes(password) ==
  Failures
  \cup {Response(200, listing, newline) :
          listing \in UNION {[1..n -> LinesFor(password)] : n \in 0..MaxLines},
          newline \in {<<"\r", "\n">>, <<"\n">>}}

\* The server specification's inputs: a few of each.
ServerOutcomes(password) ==
  {[kind |-> "timeout"],
   [kind |-> "error", message |-> CONNECT_FAILED],
   Response(503, <<>>, <<"\n">>),
   Response(200, <<>>, <<"\n">>),
   Response(200, <<Line(Listed(password), 42, "record")>>, <<"\r", "\n">>)}

EmptyBody ==
  [type |-> Absent, length |-> Absent, word_count |-> Absent,
   uppercase |-> Absent, lowercase |-> Absent, numbers |-> Absent,
   symbols |-> Absent, exclude_ambiguous |-> Absent]

ServerBodies ==
  {[EmptyBody EXCEPT !.type = PyStr("pin")],
   [EmptyBody EXCEPT !.type = PyStr("standard"), !.length = PyNone]}

\* ----------------------------------------------------------- specifications

\* The generator alone: one caller, every input of the sets above.
NextGen ==
  \/ /\ pc[1] = "idle"
     /\ \E a \in StandardArgs, tape \in Tapes : GenerateStandard(1, a, tape)
  \/ /\ pc[1] = "idle"
     /\ \E n \in PinLengths, tape \in Tapes : GeneratePin(1, n, tape)
  \/ /\ pc[1] = "idle"
     /\ \E n \in WordCounts, tape \in Tapes : GeneratePassphrase(1, n, tape)
  \/ /\ pc[1] = "idle"
     /\ \E f \in OptionFields, tape \in Tapes :
          GeneratePassword(1, f, tape)
  \/ /\ pc[1] = "idle"
     /\ \E f \in RequestFields, tape \in Tapes : ApiGenerate(1, f, tape)
  \/ Return(1)

SpecGen == Init /\ [][NextGen]_vars

\* The analyzer alone.
NextAnalyze ==
  \/ \E p \in AnalyzePasswords : AnalyzePassword(1, p)
  \/ \E p \in AnalyzePasswords : ApiAnalyze(1, p)
  \/ Return(1)

SpecAnalyze == Init /\ [][NextAnalyze]_vars

\* The breach checker alone: one call at a time, every outcome of the
\* outbound request.
NextBreach ==
  \/ \E p \in BreachPasswords : ApiBreachCheck(1, p)
  \/ /\ pc[1] = "awaiting"
     /\ \E o \in Outcomes(call[1].arg) : BreachResponse(1, o)
  \/ Return(1)

SpecBreach == Init /\ [][NextBreach]_vars

\* The server: every slot runs any of the three handlers, a breach check
\* staying suspended while the other slots go on.
Next ==
  \E s \in Slots :
    \/ \E p \in {<<"a">>, <<"Q", "7">>} : ApiAnalyze(s, p)
    \/ \E b \in ServerBodies : ApiGenerate(s, b, 0)
    \/ \E p \in BreachPasswords : ApiBreachCheck(s, p)
    \/ /\ pc[s] = "awaiting"
       /\ \E o \in ServerOutcomes(call[s].arg) : BreachResponse(s, o)
    \/ Return(s)

Spec == Init /\ [][Next]_vars

\* client.get always completes: with a response, or at the latest with the
\* timeout of 10 seconds; and a finished handler returns.
Resume(s) ==
  /\ pc[s] = "awaiting"
  /\ \E o \in ServerOutcomes(call[s].arg) : BreachResponse(s, o)

FairSpec == Spec /\ \A s \in Slots : WF_vars(Resume(s))

\* ------------------------------------------------------------------- claims

Range(seq) == {seq[i] : i \in 1..Len(seq)}

Clamped(n, lo, hi) == IF n < lo THEN lo ELSE IF n > hi THEN hi ELSE n

\* part occurs in text as a run of consecutive characters
Contains(text, part) ==
  \E k \in 0..(Len(text) - Len(part)) :
    SubSeq(text, k + 1, k + Len(part)) = part

Done(s, op) == pc[s] = "done" /\ call[s].op = op

Selected(flag) == flag = PyBool(TRUE)

AmbiguousSet == {"i", "l", "1", "L", "o", "0", "O"}

\* secret is a standard password of n characters over exactly the selected
\* classes, without ambiguous characters when they are excluded.
IsStandard(secret, n, lower, upper, numbers, symbols, exclude) ==
  /\ Len(secret) = n
  /\ lower <=> Range(secret) \cap Range(ascii_lowercase) # {}
  /\ upper <=> Range(secret) \cap Range(ascii_uppercase) # {}
  /\ numbers <=> Range(secret) \cap Range(digits) # {}
  /\ symbols <=> Range(secret) \cap Range(punctuation) # {}
  /\ exclude => Range(secret) \cap AmbiguousSet = {}

\* secret is a PIN of n decimal digits.
IsPin(secret, n) == Len(secret) = n /\ Range(secret) \subseteq Range(digits)

\* secret is n words of the word list joined by single hyphens.
IsPassphrase(secret, n) ==
  LET words == Split(secret, "-")
  IN Len(words) = n /\ \A i \in 1..n : words[i] \in Range(WORD_LIST)

C7_PinAndPassphrase ==
  \A s \in Slots :
    /\ Done(s, "generate_pin") =>
         /\ result[s].exc = ""
         /\ IsPin(result[s].value, Clamped(call[s].arg.i, 4, 6))
    /\ Done(s, "generate_passphrase") =>
         /\ result[s].exc = ""
         /\ IsPassphrase(result[s].value, Clamped(call[s].arg.i, 3, 5))

\* A passphrase asked for with more than 5 words came back with 5.
C7_Witness ==
  /\ Done(1, "generate_passphrase")
  /\ call[1].arg.i > 5
  /\ result[1].exc = ""
  /\ Len(Split(result[1].value, "-")) = 5

\* The kind, the flags and the empty-pool case of a request body, fields
\* the body does not carry at the data model's defaults.
KindOf(o) == Get(o, "type", PyStr("standard"))

FlagOf(o, key) == Get(o, key, PyBool(TRUE)) = PyBool(TRUE)

IsEmptyPool(o) ==
  /\ KindOf(o) \notin {PyStr("pin"), PyStr("passphrase")}
  /\ ~FlagOf(o, "uppercase") /\ ~FlagOf(o, "lowercase")
  /\ ~FlagOf(o, "numbers") /\ ~FlagOf(o, "symbols")

\* C5: generation fails only in the empty-pool case: generate_standard with
\* no class selected raises the validation error before any draw, and every
\* other request the boundary accepts (null length or word_count included)
\* gets a secret.
C5_OnlyEmptyPoolFails ==
  \A s \in Slots :
    /\ Done(s, "generate_standard") =>
         LET a == call[s].arg
         IN (/\ ~Selected(a.uppercase) /\ ~Selected(a.lowercase)
             /\ ~Selected(a.numbers) /\ ~Selected(a.symbols)) =>
              result[s].exc = "ValueError" /\ rng[s].n = 0
    /\ Done(s, "api_generate") =>
         IF IsEmptyPool(call[s].arg) THEN result[s].exc # ""
         ELSE result[s].exc = ""

\* C6: generate_password routes by kind to one generator, and a field the
\* options do not carry takes the data model's default (kind standard,
\* length 16, word count 4, every class selected, ambiguous characters
\* kept), the length 16 whichever the kind.
C6_DispatchDefaults ==
  \A s \in Slots :
    (Done(s, "generate_password") /\ result[s].exc = "") =>
      LET o == call[s].arg
          length == Get(o, "length", PyInt(16)).i
          word_count == Get(o, "word_count", PyInt(4)).i
          secret == result[s].value.password
      IN IF KindOf(o) = PyStr("pin")
         THEN IsPin(secret, Clamped(length, 4, 6))
         ELSE IF KindOf(o) = PyStr("passphrase")
         THEN IsPassphrase(secret, Clamped(word_count, 3, 5))
         ELSE IsStandard(secret, Clamped(length, 8, 128),
                         FlagOf(o, "lowercase"), FlagOf(o, "uppercase"),
                         FlagOf(o, "numbers"), FlagOf(o, "symbols"),
                         Get(o, "exclude_ambiguous", PyBool(FALSE))
                           = PyBool(TRUE))

\* C10: the kind generate_password reports is standard, pin or passphrase
\* and names the generator that made the secret; an unknown kind is
\* reported as standard.
C10_KindIsTheGenerator ==
  \A s \in Slots :
    ((Done(s, "generate_password") \/ Done(s, "api_generate"))
       /\ result[s].exc = "") =>
      LET kind == result[s].value.type
          secret == result[s].value.password
      IN /\ kind \in {PyStr("standard"), PyStr("pin"), PyStr("passphrase")}
         /\ kind = PyStr("pin") <=> (Len(secret) \in 4..6 /\ IsPin(secret, Len(secret)))
         /\ kind = PyStr("passphrase") <=>
              (Len(secret) > 6 /\ \E n \in 3..5 : IsPassphrase(secret, n))

\* password has a character of the alphabet
HasAny(password, alphabet) == Range(password) \cap Range(alphabet) # {}

\* password has a character that is neither a letter a-z, A-Z nor a digit
HasOther(password) ==
  Range(password)
    \ (Range(ascii_lowercase) \cup Range(ascii_uppercase) \cup Range(digits))
    # {}

Bucket(present, size) == IF present THEN size ELSE 0

\* C8: analyze_password reports as charset size the sum of the buckets of
\* the classes present (lowercase 26, uppercase 26, digit 10, any other
\* character 32), which is the same sum over the policy flags of the same
\* result; the charset size is 0 only for the empty password, and the
\* entropy is 0 exactly when the password is empty.
C8_CharsetIsBucketSum ==
  \A s \in Slots :
    (Done(s, "analyze_password") \/ Done(s, "api_analyze")) =>
      LET password == call[s].arg
          r == result[s].value
      IN /\ result[s].exc = ""
         /\ r.charset_size
              = Bucket(HasAny(password, ascii_lowercase), 26)
                + Bucket(HasAny(password, ascii_uppercase), 26)
                + Bucket(HasAny(password, digits), 10)
                + Bucket(HasOther(password), 32)
         /\ r.charset_size
              = Bucket(r.policy.has_lowercase, 26)
                + Bucket(r.policy.has_uppercase, 26)
                + Bucket(r.policy.has_number, 10)
                + Bucket(r.policy.has_symbol, 32)
         /\ r.charset_size = 0 <=> password = <<>>
         /\ r.entropy = 0 <=> password = <<>>

\* A password of a symbol and a space only: the charset size is the symbol
\* bucket alone.
C8_Witness ==
  /\ Done(1, "analyze_password")
  /\ call[1].arg = <<"!", " ">>
  /\ result[1].value.charset_size = 32
  /\ result[1].value.policy.has_symbol
  /\ result[1].value.entropy > 0

\* text begins with part
StartsWith(text, part) ==
  Len(text) >= Len(part) /\ SubSeq(text, 1, Len(part)) = part

\* The lines of a listing whose suffix is the last 35 characters of the
\* digest of the password.
Matching(listing, password) ==
  {i \in 1..Len(listing) :
     listing[i].suffix = SubSeq(sha1_hash(password), 6, 40)}

First(hits) == CHOOSE i \in hits : \A j \in hits : i <= j

\* The response has only "SUFFIX:COUNT" lines.
AllRecords(listing) ==
  \A i \in 1..Len(listing) : listing[i].form = "record"

\* C3: check_breach never raises: whatever the outbound call ends with and
\* whatever the body holds, a malformed count included, it returns a result
\* of breached, count and error; an error comes with breached false and
\* count 0; a timeout gives "Request timed out...", a status outside 2xx an
\* error with the status code in it, any other failure a network-error
\* message.
C3_NeverRaises ==
  \A s \in Slots :
    Done(s, "check_breach") =>
      /\ result[s].exc = ""
      /\ DOMAIN result[s].value = {"breached", "count", "error"}
      /\ LET r == result[s].value
             o == call[s].response
         IN /\ r.breached \in BOOLEAN
            /\ r.count \in Nat
            /\ r.error = PyNone \/ r.error.t = "str"
            /\ r.error # PyNone => (r.breached = FALSE /\ r.count = 0)
            /\ o.kind = "timeout" =>
                 /\ r.error # PyNone
                 /\ StartsWith(r.error.s,
                               <<"R","e","q","u","e","s","t"," ","t","i","m",
                                 "e","d"," ","o","u","t">>)
            /\ (o.kind = "response" /\ o.status_code \notin 200..299) =>
                 /\ r.error # PyNone
                 /\ Contains(r.error.s, Str(o.status_code))
            /\ (\/ o.kind = "error"
                \/ /\ o.kind = "response" /\ o.status_code \in 200..299
                   /\ Matching(o.listing, call[s].arg) # {}
                   /\ o.listing[First(Matching(o.listing, call[s].arg))].form
                        = "bad_count") =>
                 /\ r.error # PyNone
                 /\ StartsWith(r.error.s,
                               <<"N","e","t","w","o","r","k"," ","e","r","r",
                                 "o","r">>)

\* The first line of the response with the password's suffix has a count
\* that is no number: the result is a network error, not an exception.
C3_Witness ==
  /\ Done(1, "check_breach")
  /\ call[1].response.kind = "response"
  /\ call[1].response.status_code = 200
  /\ Len(call[1].response.listing) = 2
  /\ call[1].response.listing[1].form = "bad_count"
  /\ call[1].response.listing[1].suffix
       = SubSeq(sha1_hash(call[1].arg), 6, 40)
  /\ result[1].exc = ""
  /\ result[1].value.error # PyNone
  /\ ~result[1].value.breached

\* C4: for a 2xx response whose body is a list of "SUFFIX:COUNT" lines,
\* check_breach returns breached true with the count of the first line whose
\* suffix is exactly the 35-character upper-case suffix of the password's
\* digest, and breached false with count 0 when no line has it; error is
\* null in both cases.
C4_ExactSuffixMatch ==
  \A s \in Slots :
    (/\ Done(s, "check_breach")
     /\ call[s].response.kind = "response"
     /\ call[s].response.status_code \in 200..299
     /\ AllRecords(call[s].response.listing)) =>
      LET listing == call[s].response.listing
          hits == Matching(listing, call[s].arg)
      IN /\ result[s].exc = ""
         /\ result[s].value
              = IF hits # {}
                THEN [breached |-> TRUE, count |-> listing[First(hits)].count,
                      error |-> PyNone]
                ELSE [breached |-> FALSE, count |-> 0, error |-> PyNone]

\* Two lines have the password's suffix, with counts 7 and 42 in that
\* order: the result carries the 7.
C4_Witness ==
  /\ Done(1, "check_breach")
  /\ call[1].response.kind = "response"
  /\ call[1].response.status_code = 200
  /\ Len(call[1].response.listing) = 2
  /\ AllRecords(call[1].response.listing)
  /\ Matching(call[1].response.listing, call[1].arg) = {1, 2}
  /\ call[1].response.listing[1].count = 7
  /\ call[1].response.listing[2].count = 42
  /\ result[1].value = [breached |-> TRUE, count |-> 7, error |-> PyNone]

\* The digest of the password of slot s, its first five characters and the
\* 35 that follow.
Digest(s) == sha1_hash(call[s].arg)

Prefix(s) == SubSeq(Digest(s), 1, 5)

Suffix(s) == SubSeq(Digest(s), 6, 40)

\* Every text a request carries: its URL and the values of its headers.
Texts(request) ==
  {request.url} \cup {request.headers[h] : h \in DOMAIN request.headers}

\* Two check_breach calls whose digests begin with the same five characters
\* have sent the same requests.
SamePrefixSameRequest ==
  \A s, t \in Slots :
    (/\ call[s].op = "check_breach" /\ call[t].op = "check_breach"
     /\ Prefix(s) = Prefix(t)) =>
      outbound[s] = outbound[t]

OthersUnchanged(s) ==
  \A t \in Slots \ {s} :
    /\ pc'[t] = pc[t] /\ call'[t] = call[t] /\ result'[t] = result[t]
    /\ rng'[t] = rng[t] /\ outbound'[t] = outbound[t]

\* A handler can start in slot t.
CanStart(t) ==
  /\ ENABLED ApiAnalyze(t, <<"a">>)
  /\ \A b \in ServerBodies : ENABLED ApiGenerate(t, b, 0)
  /\ \A p \in BreachPasswords : ENABLED ApiBreachCheck(t, p)

\* C9: a check_breach call sends one request and never a second: on every
\* path one request has gone out, after which the call completes with one
\* result; and while a call is suspended the other calls (analyze, generate,
\* check_breach) start and complete, no call touching the state of another.
C9_OneRequestNoBlocking ==
  /\ [](\A s \in Slots :
          /\ Len(outbound[s]) <= 1
          /\ (call[s].op = "check_breach") <=> (Len(outbound[s]) = 1)
          /\ (pc[s] = "done") <=> (result[s] # NoResult)
          /\ pc[s] = "awaiting" =>
               \A t \in Slots \ {s} :
                 /\ pc[t] = "idle" => CanStart(t)
                 /\ pc[t] = "awaiting" => ENABLED Resume(t)
                 /\ pc[t] = "done" => ENABLED Return(t))
  /\ \A s \in Slots : (pc[s] = "awaiting") ~> (pc[s] = "done")
  /\ [][\E s \in Slots :
          /\ OthersUnchanged(s)
          /\ pc[s] = "awaiting" =>
               (outbound'[s] = outbound[s] /\ pc'[s] = "done")
          /\ (pc[s] = "done" /\ pc'[s] = "done") => result'[s] = result[s]]_vars

\* One call is suspended with its request out while another check_breach,
\* started beside it, has completed with its result after one request.
C9_Witness ==
  /\ pc[1] = "awaiting"
  /\ Len(outbound[1]) = 1
  /\ Done(2, "check_breach")
  /\ Len(outbound[2]) = 1
  /\ result[2].exc = ""
  /\ result[2].value.breached

====
